---- MODULE Spec2Model ----
(***************************************************************************)
(* The Paragraph block tool (src/unnamed/part_001): its view (the editable *)
(* text region and the tag strip), the cached record this._data, the       *)
(* settings panels handed out by renderSettings(), and the host-facing     *)
(* operations merge, validate, save, onPaste, the key-up handler and the   *)
(* tag toggle.                                                             *)
(*                                                                         *)
(* Markup is a sequence of tokens.  Assigning innerHTML parses the tokens  *)
(* into nodes, reading innerHTML serialises the nodes again; the two are   *)
(* modelled separately (ParseToken / SerializeNode).                       *)
(***************************************************************************)
EXTENDS Integers, Sequences, FiniteSets, TLC

VARIABLES
    textDOM,        \* child nodes of this._textElement, the .ce-paragraph DIV (l. 84-93)
    tagsDOM,        \* content node of each .ce-tag span of this._tagsElement (l. 95-96)
    _data,          \* this._data, the cached record (l. 49, 209-213, 225)
    _preserveBlank, \* this._preserveBlank (l. 54)
    readOnly,       \* this.readOnly (l. 33)
    panels,         \* the wrappers returned by renderSettings(): per button, active? (l. 269-285)
    _containerElement, \* this._containerElement: which element it refers to (l. 52)
    firstRoot,      \* the element the first render() returned, None before it
    saving,         \* src/index.ts: run's variable saving (l. 6)
    inFlight,       \* src/index.ts: the editor.save() calls not yet settled (l. 14)
    output,         \* src/index.ts: what the output element shows (l. 15)
    last            \* the operation handled last, with its input and its outcome

\* the host page's state
hostVars == <<saving, inFlight, output>>

\* what no operation of the block touches: the view's root, and the host
rest == <<_containerElement, hostVars>>

vars == <<textDOM, tagsDOM, _data, _preserveBlank, readOnly, panels,
          _containerElement, firstRoot, saving, inFlight, output, last>>

(***************************************************************************)
(* Bounds of the model.                                                    *)
(***************************************************************************)
MaxText == 1    \* tokens in one markup string
MaxTags == 2    \* tags in one tag sequence
MaxPanels == 1  \* settings panels handed out and still alive

(***************************************************************************)
(* JavaScript values.  An optional property is None or Some(v).            *)
(***************************************************************************)
None == << >>
Some(v) == <<v>>

Range(s) == {s[i] : i \in 1..Len(s)}

SeqsUpTo(S, n) == UNION {[1..k -> S] : k \in 0..n}

Count(x, s) == Cardinality({i \in 1..Len(s) : s[i] = x})

IsDupFree(s) == \A i, j \in 1..Len(s) : s[i] = s[j] => i = j

(***************************************************************************)
(* Markup tokens and DOM nodes.                                            *)
(***************************************************************************)
\* an element of class ce-tags holding one element of class ce-tag
Shadow == "<i class=\"ce-tags\"><b class=\"ce-tag\">feature</b></i>"

\* tokens a markup string handed to the block is made of
MarkupToken == {"&", "&amp;", "<br>", Shadow}

\* the string JavaScript's + operator makes of the value undefined
UndefinedText == "undefined"

\* nodes the editable region can hold: text, a line break, the Shadow element
Node == {"&", UndefinedText, "<br>", Shadow}

\* nodes the user can produce by typing in the editable region
TypedNode == {"&", "<br>"}

\* Element.innerHTML = markup, one token: the HTML parser decodes the
\* character reference, a bare ampersand is text
ParseToken(t) == IF t = "&amp;" THEN "&" ELSE t

\* Element.innerHTML read, one node: the serialiser escapes text
SerializeNode(n) == IF n = "&" THEN "&amp;" ELSE n

Parse(markup) == [i \in 1..Len(markup) |-> ParseToken(markup[i])]

Serialize(nodes) == [i \in 1..Len(nodes) |-> SerializeNode(nodes[i])]

\* Node.textContent of one node
NodeText(n) ==
    IF n = "<br>" THEN << >>
    ELSE IF n = Shadow THEN <<"feature">>
    ELSE <<n>>

RECURSIVE TextContent(_)
TextContent(nodes) ==
    IF nodes = << >> THEN << >>
    ELSE NodeText(Head(nodes)) \o TextContent(Tail(nodes))

\* the tag identifiers records handed to the block are made of
TagId == {"feature", "persona", "&", "&amp;"}

\* renderSettings(): the fixed menu, in order
settings == <<"feature", "persona", "irrelevant">>

(***************************************************************************)
(* Inputs.                                                                 *)
(***************************************************************************)
\* markup strings and tag sequences a record can carry
Markups == SeqsUpTo(MarkupToken \cup {" "}, MaxText)

TagSeqs == SeqsUpTo(TagId, MaxTags)

\* ParagraphData as the host hands it over: either property may be missing
DataInputs ==
    [text : {None} \cup {Some(m) : m \in Markups},
     tags : {None} \cup {Some(t) : t \in TagSeqs}]

\* the config object: preserveBlank may be missing
ConfigInputs == [preserveBlank : {None, Some(TRUE), Some(FALSE)}]

\* event.detail.data.innerHTML: the serialisation of the pasted element's nodes
PasteMarkups == {Serialize(n) : n \in SeqsUpTo(Node \cup {" "}, MaxText)}

KeyCodes == {"Backspace", "Delete", "KeyA"}

(***************************************************************************)
(* The data getter and setter.                                             *)
(***************************************************************************)
DataGet_Cached == _data

\* get data(): the record read from the view; the getter stores it in _data
DataGet ==
    [text |-> Serialize(textDOM),
     tags |-> [i \in 1..Len(tagsDOM) |-> SerializeNode(tagsDOM[i])]]

\* set data(data), data with both properties: _data is the object written,
\* the region's markup is parsed, the strip is rebuilt with one span per tag
\* the .ce-tag spans the strip holds once its innerHTML is the joined
\* `<span class='ce-tag tag-${tag}'>${tag}</span>`: per span, its content
TagSpans(tags) == [i \in 1..Len(tags) |-> ParseToken(tags[i])]

SetData(data) ==
    /\ _data' = data
    /\ textDOM' = Parse(data.text)
    /\ tagsDOM' = TagSpans(data.tags)

\* x || dflt for an optional string or array property: a missing property
\* and the empty string are falsy
OrDefault(opt, dflt) == IF opt = None \/ opt[1] = << >> THEN dflt ELSE opt[1]

\* the string a + b makes of an optional string property b
ToStringOf(opt) == IF opt = None THEN <<UndefinedText>> ELSE opt[1]

\* [...new Set(s)]: each value once, at its first occurrence
RECURSIVE SetOf(_)
SetOf(s) ==
    IF s = << >> THEN << >>
    ELSE LET front == SetOf(SubSeq(s, 1, Len(s) - 1))
             x == s[Len(s)]
         IN IF x \in Range(front) THEN front ELSE Append(front, x)

\* String.prototype.trim() on a token sequence: " " is the whitespace token
RECURSIVE TrimStart(_)
TrimStart(s) ==
    IF s # << >> /\ Head(s) = " " THEN TrimStart(Tail(s)) ELSE s

RECURSIVE TrimEnd(_)
TrimEnd(s) ==
    IF s # << >> /\ s[Len(s)] = " " THEN TrimEnd(SubSeq(s, 1, Len(s) - 1)) ELSE s

Trim(s) == TrimEnd(TrimStart(s))

(***************************************************************************)
(* The constructor.                                                        *)
(***************************************************************************)
\* config.preserveBlank !== undefined ? config.preserveBlank : false
PreserveBlankOf(config) ==
    IF config.preserveBlank # None THEN config.preserveBlank[1] ELSE FALSE

\* the record the constructor writes through the setter
ConstructData(data) ==
    [text |-> OrDefault(data.text, << >>), tags |-> OrDefault(data.tags, << >>)]

\* drawView(): the elements it creates are the 1st (text), the 2nd (tag
\* strip) and the 3rd (container) of the document
DrawViewContainer == 3

Construct(data, config, ro) ==
    LET d == ConstructData(data)
    IN /\ readOnly = ro
       /\ _preserveBlank = PreserveBlankOf(config)
       /\ _containerElement = DrawViewContainer
       /\ _data = d
       /\ textDOM = Parse(d.text)
       /\ tagsDOM = TagSpans(d.tags)
       /\ panels = << >>
       /\ firstRoot = None
       /\ last = [op |-> "construct", data |-> data]

\* src/index.ts, run(): saving = null, nothing saved, nothing shown
HostInit ==
    /\ saving = "null"
    /\ inFlight = << >>
    /\ output = None

Init ==
    /\ \E data \in DataInputs, config \in ConfigInputs, ro \in BOOLEAN :
          Construct(data, config, ro)
    /\ HostInit

(***************************************************************************)
(* merge(data)                                                             *)
(***************************************************************************)
\* text: this.data.text + data.text
MergeText(data) == DataGet.text \o ToStringOf(data.text)

\* tags: [...new Set([...this.data.tags, ...data.tags])], data.tags iterable
MergeTags(data) == SetOf(DataGet.tags \o data.tags[1])

Merge(data) ==
    IF data.tags = None
    THEN \* spreading undefined throws a TypeError; the getter has run
         /\ _data' = DataGet
         /\ last' = [op |-> "merge", data |-> data, threw |-> TRUE]
         /\ UNCHANGED <<textDOM, tagsDOM, _preserveBlank, readOnly, firstRoot, rest, panels>>
    ELSE /\ Len(MergeText(data)) <= MaxText
         /\ Len(MergeTags(data)) <= MaxTags
         /\ SetData([text |-> MergeText(data), tags |-> MergeTags(data)])
         /\ last' = [op |-> "merge", data |-> data, threw |-> FALSE]
         /\ UNCHANGED <<_preserveBlank, readOnly, firstRoot, rest, panels>>

(***************************************************************************)
(* onPaste(event), html = event.detail.data.innerHTML                      *)
(***************************************************************************)
OnPasteData_NoTags(html) == [text |-> html, tags |-> << >>]

OnPasteData(html) == [text |-> html, tags |-> DataGet.tags]

OnPaste(html) ==
    /\ SetData(OnPasteData(html))
    /\ last' = [op |-> "onPaste", html |-> html]
    /\ UNCHANGED <<_preserveBlank, readOnly, firstRoot, rest, panels>>

(***************************************************************************)
(* save(toolsContent), toolsContent = render()                             *)
(***************************************************************************)
\* is the node an element of class ce-tags
IsCeTags(n) == n = Shadow

\* the .ce-tag descendants of a node of the editable region, their innerHTML
CeTagItems(n) == IF n = Shadow THEN <<"feature">> ELSE << >>

\* toolsContent.querySelector('.ce-tags'): the first match in document order;
\* the editable region comes before the strip in the container
FirstCeTagsItems ==
    IF \E i \in 1..Len(textDOM) : IsCeTags(textDOM[i])
    THEN LET i == CHOOSE k \in 1..Len(textDOM) :
                     /\ IsCeTags(textDOM[k])
                     /\ \A j \in 1..(k - 1) : ~IsCeTags(textDOM[j])
         IN CeTagItems(textDOM[i])
    ELSE DataGet.tags

\* toolsContent.querySelector('.ce-paragraph') is the editable region itself
SaveResult == [text |-> Serialize(textDOM), tags |-> FirstCeTagsItems]

Save ==
    /\ last' = [op |-> "save", ret |-> SaveResult]
    /\ UNCHANGED <<textDOM, tagsDOM, _data, _preserveBlank, readOnly, firstRoot, rest, panels>>

(***************************************************************************)
(* validate(savedData)                                                     *)
(***************************************************************************)
ValidateResult_NoTrim(text) ==
    IF text = << >> /\ ~_preserveBlank THEN FALSE ELSE TRUE

ValidateResult(text) ==
    IF Trim(text) = << >> /\ ~_preserveBlank THEN FALSE ELSE TRUE

\* the host validates what save() returned; a record may lack a property
ValidateInputs ==
    {[text |-> Some(last.ret.text), tags |-> Some(last.ret.tags)],
     [text |-> Some(last.ret.text), tags |-> None],
     [text |-> None, tags |-> Some(last.ret.tags)]}

Validate(savedData) ==
    /\ last' =
         IF savedData.text = None
         THEN \* undefined.trim() throws a TypeError
              [op |-> "validate", data |-> savedData, threw |-> TRUE]
         ELSE [op |-> "validate", data |-> savedData, threw |-> FALSE,
               ret |-> ValidateResult(savedData.text[1])]
    /\ UNCHANGED <<textDOM, tagsDOM, _data, _preserveBlank, readOnly, firstRoot, rest, panels>>

(***************************************************************************)
(* The editable region: typing, and the key-up listener                    *)
(***************************************************************************)
\* drawView(): contentEditable is true unless the block is read-only
ContentEditable == ~readOnly

KeyUpListener_Always == TRUE

\* drawView(): the keyup listener is attached unless the block is read-only
KeyUpListener == ~readOnly

\* the user types a character or a line break, or deletes the last node
UserEdit ==
    /\ ContentEditable
    /\ \/ \E n \in TypedNode \cup {" "} :
            /\ Len(textDOM) < MaxText
            /\ textDOM' = Append(textDOM, n)
       \/ /\ textDOM # << >>
          /\ textDOM' = SubSeq(textDOM, 1, Len(textDOM) - 1)
    /\ last' = [op |-> "edit"]
    /\ UNCHANGED <<tagsDOM, _data, _preserveBlank, readOnly, firstRoot, rest, panels>>

OnKeyUpText_InnerHTML(code) ==
    IF code # "Backspace" /\ code # "Delete" THEN textDOM
    ELSE IF Serialize(textDOM) = << >> THEN << >>
    ELSE textDOM

\* onKeyUp(e)
OnKeyUpText(code) ==
    IF code # "Backspace" /\ code # "Delete" THEN textDOM
    ELSE IF TextContent(textDOM) = << >> THEN << >>
    ELSE textDOM

KeyUp(code) ==
    /\ KeyUpListener
    /\ textDOM' = OnKeyUpText(code)
    /\ last' = [op |-> "keyup", code |-> code, before |-> Serialize(textDOM)]
    /\ UNCHANGED <<tagsDOM, _data, _preserveBlank, readOnly, firstRoot, rest, panels>>

(***************************************************************************)
(* renderSettings() and _toggleTag(tag)                                    *)
(***************************************************************************)
\* the wrapper: per option, whether the button carries the active class
NewPanel == [i \in 1..Len(settings) |-> settings[i] \in Range(DataGet.tags)]

RenderSettings ==
    /\ Len(panels) < MaxPanels
    /\ panels' = Append(panels, NewPanel)
    /\ _data' = DataGet
    /\ last' = [op |-> "renderSettings"]
    /\ UNCHANGED <<textDOM, tagsDOM, _preserveBlank, readOnly, firstRoot, rest>>

\* data.tags.splice(data.tags.indexOf(tag), 1)
RemoveFirst(tags, tag) ==
    LET i == CHOOSE k \in 1..Len(tags) :
                 tags[k] = tag /\ \A j \in 1..(k - 1) : tags[j] # tag
    IN SubSeq(tags, 1, i - 1) \o SubSeq(tags, i + 1, Len(tags))

ToggledTags_AlwaysPush(tag) == Append(DataGet.tags, tag)

ToggledTags_Prepend(tag) ==
    IF tag \in Range(DataGet.tags)
    THEN RemoveFirst(DataGet.tags, tag)
    ELSE <<tag>> \o DataGet.tags

\* the tags _toggleTag(tag) writes back
ToggledTags(tag) ==
    IF tag \in Range(DataGet.tags)
    THEN RemoveFirst(DataGet.tags, tag)
    ELSE Append(DataGet.tags, tag)

\* the click listener of button i of panel p
Click(p, i) ==
    /\ Len(ToggledTags(settings[i])) <= MaxTags
    /\ SetData([text |-> DataGet.text, tags |-> ToggledTags(settings[i])])
    /\ panels' = [panels EXCEPT ![p][i] = ~panels[p][i]]
    /\ last' = [op |-> "toggle", tag |-> settings[i],
                before |-> settings[i] \in Range(DataGet.tags)]
    /\ UNCHANGED <<_preserveBlank, readOnly, firstRoot, rest>>

\* a read through the data getter; stale: the cache differed from the view
GetData ==
    /\ _data' = DataGet
    /\ last' = [op |-> "get", stale |-> (_data # DataGet)]
    /\ UNCHANGED <<textDOM, tagsDOM, _preserveBlank, readOnly, firstRoot, rest, panels>>

(***************************************************************************)
(* render()                                                                *)
(***************************************************************************)
RenderResult_Rebuilt ==
    IF firstRoot = None THEN _containerElement
    ELSE firstRoot[1] + DrawViewContainer

\* return this._containerElement
RenderResult == _containerElement

Render ==
    /\ last' = [op |-> "render", ret |-> RenderResult]
    /\ firstRoot' = IF firstRoot = None THEN Some(RenderResult) ELSE firstRoot
    /\ UNCHANGED <<textDOM, tagsDOM, _data, _preserveBlank, readOnly, panels, rest>>

(***************************************************************************)
(* The block                                                               *)
(***************************************************************************)
Next ==
    \/ Render
    \/ \E data \in DataInputs : Merge(data)
    \/ \E html \in PasteMarkups : OnPaste(html)
    \/ Save
    \/ \E d \in (IF last.op = "save" THEN ValidateInputs ELSE {}) : Validate(d)
    \/ UserEdit
    \/ \E code \in KeyCodes : KeyUp(code)
    \/ RenderSettings
    \/ \E p \in 1..Len(panels), i \in 1..Len(settings) : Click(p, i)
    \/ GetData

Spec == Init /\ [][Next]_vars

(***************************************************************************)
(* The tag store: any constructed block, its settings panels and the       *)
(* clicks on them.                                                         *)
(***************************************************************************)
NextToggle ==
    \/ RenderSettings
    \/ \E p \in 1..Len(panels), i \in 1..Len(settings) : Click(p, i)

SpecToggle == Init /\ [][NextToggle]_vars

(***************************************************************************)
(* Paste intake: any constructed block, typing, and pastes.                *)
(***************************************************************************)
NextPaste ==
    \/ \E html \in PasteMarkups : OnPaste(html)
    \/ UserEdit

SpecPaste == Init /\ [][NextPaste]_vars

(***************************************************************************)
(* The host's save protocol: save(render()), then validate(savedData).     *)
(***************************************************************************)
NextValidate ==
    \/ Save
    \/ \E d \in (IF last.op = "save" THEN ValidateInputs ELSE {}) : Validate(d)

SpecValidate == Init /\ [][NextValidate]_vars

(***************************************************************************)
(* The view's root: render() between the operations that rewrite the view. *)
(***************************************************************************)
NextRender ==
    \/ Render
    \/ \E html \in PasteMarkups : OnPaste(html)
    \/ Save
    \/ \E code \in KeyCodes : KeyUp(code)

SpecRender == Init /\ [][NextRender]_vars

(***************************************************************************)
(* The editable region: typing, key-up events and reads of the data.       *)
(***************************************************************************)
NextEdit ==
    \/ UserEdit
    \/ \E code \in KeyCodes : KeyUp(code)
    \/ GetData

SpecEdit == Init /\ [][NextEdit]_vars

(***************************************************************************)
(* The host page, src/src/index.ts: one editor holding one myParagraph     *)
(* block, created with no data and no tool configuration.  A user edit of  *)
(* the block is a change the editor reports through onChange; the report   *)
(* is outstanding while last.op = "edit".  editor.save() is asynchronous:  *)
(* it reads the block through save and validate at some moment between     *)
(* the call and the resolution of its promise.                             *)
(***************************************************************************)
\* the document editor.save() resolves with: a block whose validate
\* returns false is left out
EditorSaveOutput ==
    [blocks |-> IF ValidateResult(SaveResult.text) THEN <<SaveResult>> ELSE << >>]

OnChangeStarts_Always == TRUE

\* if (!saving)
OnChangeStarts == saving = "null"

\* onChange: () => { if (!saving) { saving = editor.save().then(...) } }
OnChange ==
    /\ last.op = "edit"
    /\ IF OnChangeStarts
       THEN /\ saving' = "promise"
            /\ inFlight' = Append(inFlight, None)
       ELSE UNCHANGED <<saving, inFlight>>
    /\ last' = [op |-> "onChange", busy |-> saving # "null", started |-> OnChangeStarts]
    /\ UNCHANGED <<textDOM, tagsDOM, _data, _preserveBlank, readOnly, panels,
                   _containerElement, firstRoot, output>>

\* a pending editor.save() reads the block
EditorSaveReads ==
    /\ \E i \in 1..Len(inFlight) :
            /\ inFlight[i] = None
            /\ inFlight' = [inFlight EXCEPT ![i] = Some(EditorSaveOutput)]
    /\ UNCHANGED <<textDOM, tagsDOM, _data, _preserveBlank, readOnly, panels,
                   _containerElement, firstRoot, saving, output, last>>

\* .then((output) => { ...innerText = JSON.stringify(output, null, 2); saving = null })
SaveThen ==
    /\ inFlight # << >>
    /\ inFlight[1] # None
    /\ output' = inFlight[1]
    /\ saving' = "null"
    /\ inFlight' = Tail(inFlight)
    /\ UNCHANGED <<textDOM, tagsDOM, _data, _preserveBlank, readOnly, panels,
                   _containerElement, firstRoot, last>>

\* new EditorJS({holder, tools: {myParagraph: MyParagraph}, defaultBlock, onChange})
InitHost ==
    /\ Construct([text |-> None, tags |-> None], [preserveBlank |-> None], FALSE)
    /\ HostInit

NextHost ==
    \/ UserEdit
    \/ OnChange
    \/ EditorSaveReads
    \/ SaveThen

SpecHost == InitHost /\ [][NextHost]_vars

(***************************************************************************)
(* Properties                                                              *)
(***************************************************************************)
\* the last operation went through the data setter
WroteLast ==
    /\ last.op \in {"construct", "merge", "onPaste", "toggle"}
    /\ last.op = "merge" => ~last.threw

\* C1: at every observable point the tags read through the data getter, and
\* the tags save() returns, hold no identifier more than once.
C1_NoDuplicateTags ==
    /\ IsDupFree(DataGet.tags)
    /\ last.op = "save" => IsDupFree(last.ret.tags)

\* the identifiers of incoming not in T, each once, at its first occurrence
RECURSIVE Novel(_, _)
Novel(T, incoming) ==
    IF incoming = << >> THEN << >>
    ELSE IF Head(incoming) \in Range(T)
         THEN Novel(T, Tail(incoming))
         ELSE <<Head(incoming)>> \o Novel(Append(T, Head(incoming)), Tail(incoming))

\* C2: merge(incoming) on a block holding {text: A, tags: T} leaves text =
\* A followed by incoming.text, and tags = T followed by the identifiers of
\* incoming.tags not in T, each once.
C2_MergeConcatenatesAndUnites ==
    [][(last'.op = "merge" /\ ~last'.threw /\ last'.data.text # None)
        => /\ DataGet'.text = DataGet.text \o last'.data.text[1]
           /\ DataGet'.tags = DataGet.tags \o Novel(DataGet.tags, last'.data.tags[1])]_vars

\* C3: two toggles of one tag in succession return its membership in the
\* block's tags to what it was before the first.
C3_ToggleTwiceRestoresMembership ==
    [][(last.op = "toggle" /\ last'.op = "toggle" /\ last'.tag = last.tag)
        => ((last.tag \in Range(DataGet'.tags)) = last.before)]_vars

\* C4: a toggle of an absent tag leaves it in the tags exactly once; a toggle
\* of a present tag appends nothing, so no toggle raises the number of
\* occurrences of any identifier above one.
C4_ToggleAddsAbsentTagOnce ==
    [][last'.op = "toggle"
        => /\ last'.tag \notin Range(DataGet.tags)
                => Count(last'.tag, DataGet'.tags) = 1
           /\ last'.tag \in Range(DataGet.tags)
                => Len(DataGet'.tags) < Len(DataGet.tags)
           /\ \A x \in Range(DataGet'.tags) :
                Count(x, DataGet'.tags) > 1
                    => Count(x, DataGet.tags) >= Count(x, DataGet'.tags)]_vars

\* C4 witness: an absent tag has just been toggled and is in the tags once
C4_Witness ==
    /\ last.op = "toggle"
    /\ ~last.before
    /\ Count(last.tag, DataGet.tags) = 1

\* C5: every button of every settings panel is active exactly when its tag
\* is in the block's tags.
C5_ButtonsReflectMembership ==
    \A p \in 1..Len(panels), i \in 1..Len(settings) :
        panels[p][i] = (settings[i] \in Range(DataGet.tags))

\* C6: onPaste leaves the text equal to the pasted node's inner markup and
\* the tags sequence as it was before the paste.
C6_PasteReplacesTextKeepsTags ==
    [][last'.op = "onPaste"
        => /\ DataGet'.text = last'.html
           /\ DataGet'.tags = DataGet.tags]_vars

\* C6 witness: markup has been pasted into a block that carries tags
C6_Witness ==
    /\ last.op = "onPaste"
    /\ last.html # << >>
    /\ DataGet.text = last.html
    /\ DataGet.tags # << >>

\* C7: the record save(render()) returns holds the editable region's markup
\* and the tag strip's identifiers, the values the data getter reads.
C7_SaveReturnsViewContent ==
    last.op = "save" => last.ret = DataGet

\* C8: a record with duplicate-free tags written through the setter is read
\* back through the getter with the same text and the same tags.
C8_SetThenGetRoundTrip ==
    (WroteLast /\ IsDupFree(_data.tags))
        => /\ DataGet.text = _data.text
           /\ DataGet.tags = _data.tags

\* the text is empty once whitespace is trimmed: every token is whitespace
IsBlank(text) == \A i \in 1..Len(text) : text[i] = " "

\* C9: validate returns false exactly when the trimmed text is empty and
\* preserveBlank is not set, whatever savedData.tags is (missing included).
C9_ValidateRejectsBlankOnly ==
    (last.op = "validate" /\ ~last.threw)
        => (last.ret = FALSE <=> (IsBlank(last.data.text[1]) /\ ~_preserveBlank))

\* C9 witness: a non-empty all-whitespace text was rejected, tags missing
C9_Witness ==
    /\ last.op = "validate"
    /\ ~last.threw
    /\ last.data.tags = None
    /\ last.data.text[1] # << >>
    /\ last.ret = FALSE

\* C10: merge and validate given a record that lacks text or tags complete
\* normally, the missing text counting as the empty string.
C10_MissingInputNeverThrows ==
    /\ last.op \in {"merge", "validate"} => ~last.threw
    /\ (last.op = "merge" /\ last.data.text = None)
            => UndefinedText \notin Range(DataGet.text)

\* C11: a block constructed from a record that lacks text, tags or both
\* holds the empty string / the empty sequence for each missing property and
\* the given value, unchanged, for each present one.
C11_ConstructDefaultsMissingFields ==
    (last.op = "construct" /\ (last.data.text = None \/ last.data.tags = None))
        => /\ DataGet.text =
                IF last.data.text = None THEN << >> ELSE last.data.text[1]
           /\ DataGet.tags =
                IF last.data.tags = None THEN << >> ELSE last.data.tags[1]

IsOnlyBreaks(markup) == \A i \in 1..Len(markup) : markup[i] = "<br>"

\* C13: after a Backspace or Delete key-up on a region whose text content is
\* empty the markup is the empty string and the text read is empty; after
\* any other key-up the markup is what it was.
C13_KeyUpClearsEmptyRegion ==
    last.op = "keyup"
        => IF last.code \in {"Backspace", "Delete"} /\ IsOnlyBreaks(last.before)
           THEN textDOM = << >> /\ DataGet.text = << >>
           ELSE Serialize(textDOM) = last.before

\* C13 witness: Backspace on a region holding a lone line break cleared it
C13_Witness ==
    /\ last.op = "keyup"
    /\ last.code = "Backspace"
    /\ last.before = <<"<br>">>
    /\ textDOM = << >>
    /\ ~readOnly

\* C14: a read-only block is not editable and has no key-up listener, and no
\* user event (typing, key-up) changes its text.
C14_ReadOnlyTextNeverEdited ==
    [][readOnly => /\ ~ContentEditable
                   /\ ~KeyUpListener
                   /\ textDOM' = textDOM]_vars

\* C14 witness: a read-only block whose region holds a lone line break (which
\* a Backspace key-up would clear in an editable block), after an operation
C14_Witness ==
    /\ readOnly
    /\ Serialize(textDOM) = <<"<br>">>
    /\ last.op = "get"

\* C15: what a read through the data getter returns is the markup the
\* editable region holds and the identifiers the tag strip holds at the read.
C15_GetterReadsTheView ==
    last.op = "get"
        => /\ _data.text = Serialize(textDOM)
           /\ _data.tags = [i \in 1..Len(tagsDOM) |-> SerializeNode(tagsDOM[i])]

\* C15 witness: a read that followed an edit the cache had not seen
C15_Witness ==
    /\ last.op = "get"
    /\ last.stale
    /\ _data.text # << >>

\* the sequence with every occurrence of x left out
Without(s, x) == SelectSeq(s, LAMBDA y : y # x)

C16_AtMostOneSaveInFlight ==
    /\ Len(inFlight) <= 1
    /\ (saving = "null") <=> (inFlight = << >>)
    /\ (last.op = "onChange" /\ last.busy) => ~last.started

\* C16 witness: an onChange arrived while a save was pending
C16_Witness ==
    /\ last.op = "onChange"
    /\ last.busy
    /\ ~last.started
    /\ Len(inFlight) = 1

\* every change has been reported and every started save has completed
Quiescent ==
    /\ last.op = "onChange"
    /\ saving = "null"
    /\ inFlight = << >>

\* C17: once the onChange notifications have stopped and every started save
\* has completed, the output the host shows is the document as it is after
\* the last change.
C17_OutputReflectsLastChange ==
    Quiescent => output = Some(EditorSaveOutput)

====
